---- MODULE Spec2Model ----
(***************************************************************************)
(* GIFify: the Express server of server.js that turns an uploaded video    *)
(* into a JPEG thumbnail (/thumbnail) or an animated GIF (/convert) by     *)
(* running ffmpeg.  The model follows one request from the multer upload   *)
(* middleware through the handler, its external processes, the sending of  *)
(* the result file and the cleanup of the scratch directory.  Strings are  *)
(* TLA+ strings: paths, commands and error messages are built as the code  *)
(* builds them.                                                            *)
(***************************************************************************)
EXTENDS Integers, Sequences, FiniteSets, TLC

(***************************************************************************)
(* Bounds of the model.                                                    *)
(***************************************************************************)
\* number of requests the server receives
NReq == 2

\* largest value of Date.now() (the clock starts at 1)
MaxClock == 2

\* longest client file name of NameUploads
MaxNameLen == 3

Reqs == 1..NReq

(***************************************************************************)
(* Configuration (CONFIG in server.js).                                    *)
(***************************************************************************)
MAX_FILE_SIZE == 100 * 1024 * 1024

FFMPEG_TIMEOUT == 120000

THUMBNAIL_TIMEOUT == 30000

ALLOWED_MIME_TYPES ==
  <<"video/mp4", "video/quicktime", "video/x-msvideo",
    "video/x-matroska", "video/webm", "video/mpeg">>

QUALITY_PRESETS ==
  [low    |-> [fps |-> "10", scale |-> "320", colors |-> "128"],
   medium |-> [fps |-> "15", scale |-> "480", colors |-> "256"],
   high   |-> [fps |-> "20", scale |-> "640", colors |-> "256"]]

\* Object.keys(CONFIG.QUALITY_PRESETS), in insertion order
PresetKeys == <<"low", "medium", "high">>

\* path.join(__dirname, 'uploads'), __dirname being the image's WORKDIR
uploadDir == "/usr/src/app/uploads"

(***************************************************************************)
(* String helpers (JavaScript's String and path functions).                *)
(***************************************************************************)
\* String.prototype.includes
Includes(s, sub) ==
  \E i \in 1..(Len(s) - Len(sub) + 1) : SubSeq(s, i, i + Len(sub) - 1) = sub

\* Array.prototype.includes on a sequence
ArrayIncludes(arr, x) == \E i \in 1..Len(arr) : arr[i] = x

RECURSIVE Join(_, _)
\* Array.prototype.join
Join(arr, sep) ==
  IF Len(arr) = 0 THEN ""
  ELSE IF Len(arr) = 1 THEN arr[1]
  ELSE arr[1] \o sep \o Join(Tail(arr), sep)

\* the characters the regular expression of sanitizeFilename keeps
SafeChars ==
  {"a","b","c","d","e","f","g","h","i","j","k","l","m",
   "n","o","p","q","r","s","t","u","v","w","x","y","z",
   "A","B","C","D","E","F","G","H","I","J","K","L","M",
   "N","O","P","Q","R","S","T","U","V","W","X","Y","Z",
   "0","1","2","3","4","5","6","7","8","9",".","_","-"}

RECURSIVE sanitizeFilenameRemove(_)
\* a sanitizer that removes the characters instead of replacing them
sanitizeFilenameRemove(filename) ==
  IF filename = "" THEN ""
  ELSE (IF SubSeq(filename, 1, 1) \in SafeChars
          THEN SubSeq(filename, 1, 1) ELSE "")
       \o sanitizeFilenameRemove(SubSeq(filename, 2, Len(filename)))

RECURSIVE sanitizeFilename(_)
\* filename.replace(/[^a-zA-Z0-9._-]/g, '_')
sanitizeFilename(filename) ==
  IF filename = "" THEN ""
  ELSE (IF SubSeq(filename, 1, 1) \in SafeChars
          THEN SubSeq(filename, 1, 1) ELSE "_")
       \o sanitizeFilename(SubSeq(filename, 2, Len(filename)))

\* index of the last '.' of a name, 0 when there is none
LastDot(name) ==
  LET dots == {i \in 1..Len(name) : SubSeq(name, i, i) = "."}
  IN IF dots = {} THEN 0 ELSE CHOOSE i \in dots : \A j \in dots : j <= i

\* path.extname of a name without directory part
extname(name) ==
  IF LastDot(name) <= 1 THEN "" ELSE SubSeq(name, LastDot(name), Len(name))

\* path.basename(name, ext) of a name without directory part
basename(name, ext) ==
  IF /\ ext # ""
     /\ Len(ext) < Len(name)
     /\ SubSeq(name, Len(name) - Len(ext) + 1, Len(name)) = ext
    THEN SubSeq(name, 1, Len(name) - Len(ext))
    ELSE name

\* path.join(uploadDir, name)
joinUploadDir(name) == uploadDir \o "/" \o name

(***************************************************************************)
(* Inputs of a request.                                                    *)
(***************************************************************************)
\* the request carries no file part
NoFile == [fieldname |-> "", originalname |-> "", mimetype |-> "", size |-> 0]

\* the file part of the multipart body: field name, client file name,
\* declared MIME type and size in bytes
Uploads ==
  { [fieldname |-> "video", originalname |-> "clip.mp4",
     mimetype |-> "video/mp4", size |-> 1024],
    [fieldname |-> "video", originalname |-> "timeout.mp4",
     mimetype |-> "video/mp4", size |-> MAX_FILE_SIZE],
    [fieldname |-> "video", originalname |-> "clip.gif",
     mimetype |-> "video/mp4", size |-> 1024],
    [fieldname |-> "video", originalname |-> "clip.txt",
     mimetype |-> "text/plain", size |-> 1024],
    [fieldname |-> "video", originalname |-> "clip.mp4",
     mimetype |-> "video/mp4", size |-> MAX_FILE_SIZE + 1],
    [fieldname |-> "video", originalname |-> "clip.txt",
     mimetype |-> "text/plain", size |-> MAX_FILE_SIZE + 1],
    [fieldname |-> "file", originalname |-> "clip.mp4",
     mimetype |-> "video/mp4", size |-> 1024],
    [fieldname |-> "file", originalname |-> "clip.mp4",
     mimetype |-> "video/mp4", size |-> MAX_FILE_SIZE + 1],
    NoFile }

\* JavaScript's undefined, for a body field that was not sent
Undefined == "undefined"

\* the values of the form field 'quality'
Qualities == {Undefined, "low", "high", "ultra", "constructor"}

Routes == {"/thumbnail", "/convert"}

\* the uploads and qualities of the requests that run concurrently (see
\* SpecConc): accepted uploads and no quality field
ConcUploads ==
  { [fieldname |-> "video", originalname |-> "clip.mp4",
     mimetype |-> "video/mp4", size |-> 1024],
    [fieldname |-> "video", originalname |-> "clip.mov",
     mimetype |-> "video/quicktime", size |-> 1024] }

ConcQualities == {Undefined}

\* the processes of SpecConc end with exit code 0 after a second, or later
\* than their timer
ConcOutcomes == {"ok"}

ConcDurations == {1000}

\* the characters of the client file names of NameUploads: letters, a
\* digit, the three punctuation marks the sanitizer keeps, and characters
\* with a meaning for the shell
NameChars == {"a", "Z", "7", ".", "_", "-", " ", ";", "$", "\""}

RECURSIVE NamesUpTo(_)
\* the strings over NameChars of length n at most
NamesUpTo(n) ==
  IF n = 0 THEN {""}
  ELSE LET shorter == NamesUpTo(n - 1)
       IN shorter \cup {name \o c : name \in shorter, c \in NameChars}

\* accepted uploads with every client file name of MaxNameLen characters at
\* most (see SpecNames)
NameUploads ==
  {[fieldname |-> "video", originalname |-> name,
    mimetype |-> "video/mp4", size |-> 1024] : name \in NamesUpTo(MaxNameLen) \ {""}}

(***************************************************************************)
(* Errors, log entries and responses.                                      *)
(***************************************************************************)
\* JavaScript's null, the initial value of the path variables of a handler
Null == "null"

\* no error
NoError == [type |-> "", code |-> "", message |-> ""]

\* the Error the timer of execWithTimeout rejects with
TimeoutError ==
  [type |-> "Error", code |-> "", message |-> "FFmpeg execution timeout"]

\* the Error of child_process.exec for a command that exits with a
\* non-zero code: 'Command failed: ' + cmd + '\n' + stderr
ExecError(command, stderr) ==
  [type |-> "Error", code |-> "1",
   message |-> "Command failed: " \o command \o "\n" \o stderr]

\* the RangeError of child_process.exec when the output exceeds maxBuffer
MaxBufferError ==
  [type |-> "RangeError", code |-> "ERR_CHILD_PROCESS_STDIO_MAXBUFFER",
   message |-> "stderr maxBuffer length exceeded"]

\* the Error the fileFilter of upload passes to its callback
FileTypeError ==
  [type |-> "Error", code |-> "",
   message |-> "Invalid file type. Allowed types: "
               \o Join(ALLOWED_MIME_TYPES, ", ")]

\* multer.MulterError of the given code
MulterError(code) ==
  [type |-> "MulterError", code |-> code,
   message |-> IF code = "LIMIT_FILE_SIZE" THEN "File too large"
               ELSE IF code = "LIMIT_UNEXPECTED_FILE" THEN "Unexpected field"
               ELSE code]

\* the error of the callback of res.sendFile
SendError(code) ==
  [type |-> "Error", code |-> code,
   message |-> IF code = "ENOENT" THEN "ENOENT: no such file or directory"
               ELSE "Request aborted"]

\* error.stack: the message followed by the frames of the call stack
StackMark == "\n    at "

stack(error) == error.type \o ": " \o error.message \o StackMark \o "server.js"

\* one line of logger.info
LogInfo(message, path) ==
  [level |-> "info", message |-> message, error |-> "", stack |-> "",
   path |-> path]

\* one line of logger.error: error.message and error.stack are logged
LogError(message, error, path) ==
  [level |-> "error", message |-> message, error |-> error.message,
   stack |-> stack(error), path |-> path]

\* res.status(status).json({error, details})
Json(status, error, details) ==
  [status |-> status, error |-> error, details |-> details,
   allowed |-> <<>>, maxSize |-> "", file |-> ""]

\* res.status(400).json({error, allowed})
JsonAllowed(status, error, allowed) ==
  [status |-> status, error |-> error, details |-> "",
   allowed |-> allowed, maxSize |-> "", file |-> ""]

\* res.status(413).json({error, maxSize})
JsonMaxSize(status, error, maxSize) ==
  [status |-> status, error |-> error, details |-> "",
   allowed |-> <<>>, maxSize |-> maxSize, file |-> ""]

\* the response of res.sendFile(path)
FileResponse(path) ==
  [status |-> 200, error |-> "", details |-> "",
   allowed |-> <<>>, maxSize |-> "", file |-> path]

(***************************************************************************)
(* The scratch directory: a function from the paths that exist to the      *)
(* request that wrote the file.                                            *)
(***************************************************************************)
\* fs.existsSync(filePath); it is false for null
existsSync(files, filePath) == filePath \in DOMAIN files

\* a file is created or overwritten at filePath by request r
writeFile(files, filePath, r) ==
  [p \in (DOMAIN files) \cup {filePath} |->
     IF p = filePath THEN r ELSE files[p]]

\* fs.promises.unlink(filePath)
unlink(files, filePath) == [p \in (DOMAIN files) \ {filePath} |-> files[p]]

\* the error of fs.promises.unlink for a file that cannot be deleted
UnlinkError(filePath) ==
  [type |-> "Error", code |-> "EPERM",
   message |-> "EPERM: operation not permitted, unlink '" \o filePath \o "'"]

\* the paths of a list
PathsOf(filePaths) == {filePaths[i] : i \in 1..Len(filePaths)}

\* the paths of a list that exist: those cleanupFiles tries to delete
Existing(files, filePaths) ==
  {p \in PathsOf(filePaths) : existsSync(files, p)}

\* the sets of paths whose unlink may be rejected in one call of
\* cleanupFiles: any of the existing ones where the file system is faulty
Failing(files, filePaths, faulty) ==
  IF faulty THEN SUBSET Existing(files, filePaths) ELSE {{}}

RECURSIVE cleanupFilesFirst(_, _, _)
\* a cleanup that returns after the first path of the list
cleanupFilesFirst(files, filePaths, failing) ==
  IF filePaths = <<>> THEN files
  ELSE IF existsSync(files, Head(filePaths)) /\ Head(filePaths) \notin failing
    THEN unlink(files, Head(filePaths))
    ELSE files

RECURSIVE cleanupFilesStop(_, _, _)
\* a cleanup without try/catch in its loop: the first failure ends the loop
cleanupFilesStop(files, filePaths, failing) ==
  IF filePaths = <<>> THEN files
  ELSE IF existsSync(files, Head(filePaths)) /\ Head(filePaths) \in failing
    THEN files
  ELSE cleanupFilesStop(IF existsSync(files, Head(filePaths))
                          THEN unlink(files, Head(filePaths))
                          ELSE files,
                        Tail(filePaths), failing)

RECURSIVE cleanupFiles(_, _, _)
\* the scratch directory after cleanupFiles(filePaths), the unlink of the
\* paths of failing being rejected
cleanupFiles(files, filePaths, failing) ==
  IF filePaths = <<>> THEN files
  ELSE cleanupFiles(IF /\ existsSync(files, Head(filePaths))
                       /\ Head(filePaths) \notin failing
                      THEN unlink(files, Head(filePaths))
                      ELSE files,
                    Tail(filePaths), failing)

RECURSIVE cleanupLog(_, _, _)
\* the log lines of cleanupFiles(filePaths)
cleanupLog(files, filePaths, failing) ==
  IF filePaths = <<>> THEN <<>>
  ELSE IF ~existsSync(files, Head(filePaths))
    THEN cleanupLog(files, Tail(filePaths), failing)
  ELSE IF Head(filePaths) \in failing
    THEN <<LogError("Failed to cleanup file", UnlinkError(Head(filePaths)),
                    Head(filePaths))>>
         \o cleanupLog(files, Tail(filePaths), failing)
  ELSE <<LogInfo("File cleaned up", Head(filePaths))>>
       \o cleanupLog(unlink(files, Head(filePaths)), Tail(filePaths), failing)

(***************************************************************************)
(* Request validation and the construction of paths and commands.          *)
(***************************************************************************)
\* the fileFilter of upload: cb(null, true) or cb(new Error(...))
fileFilter(file) == ArrayIncludes(ALLOWED_MIME_TYPES, file.mimetype)

\* the error with which upload.single('video') ends the request, NoError
\* when it calls the handler: the field name is checked first, then the
\* fileFilter, and the size limit while the file is written
multerCheck(file) ==
  IF file = NoFile THEN NoError
  ELSE IF file.fieldname # "video" THEN MulterError("LIMIT_UNEXPECTED_FILE")
  ELSE IF ~fileFilter(file) THEN FileTypeError
  ELSE IF file.size > MAX_FILE_SIZE THEN MulterError("LIMIT_FILE_SIZE")
  ELSE NoError

\* the filename callback of storage: `${Date.now()}-${sanitized}`
storageFilename(now, originalname) ==
  ToString(now) \o "-" \o sanitizeFilename(originalname)

\* req.file when no file was uploaded
NoReqFile == [filename |-> "", path |-> "", size |-> 0]

\* the global error handler with the code of another multer limit in the
\* place of LIMIT_FILE_SIZE
errorHandlerFileCount(error) ==
  IF error.type = "MulterError"
    THEN IF error.code = "LIMIT_FILE_COUNT"
           THEN JsonMaxSize(413, "File too large",
                            ToString(MAX_FILE_SIZE \div (1024 * 1024)) \o "MB")
           ELSE Json(400, "File upload error", error.message)
    ELSE Json(500, "Internal server error", error.message)

\* the response of the global error handler
errorHandler(error) ==
  IF error.type = "MulterError"
    THEN IF error.code = "LIMIT_FILE_SIZE"
           THEN JsonMaxSize(413, "File too large",
                            ToString(MAX_FILE_SIZE \div (1024 * 1024)) \o "MB")
           ELSE Json(400, "File upload error", error.message)
    ELSE Json(500, "Internal server error", error.message)

\* the log line of the global error handler
errorHandlerLog(error) ==
  IF error.type = "MulterError"
    THEN LogError("Multer error", error, "")
    ELSE LogError("Unexpected error", error, "")

\* the members every JavaScript object inherits from Object.prototype
ObjectPrototypeKeys ==
  {"constructor", "toString", "toLocaleString", "valueOf", "hasOwnProperty",
   "isPrototypeOf", "propertyIsEnumerable", "__proto__"}

\* req.body.quality || 'medium'
qualityOf(bodyQuality) ==
  IF bodyQuality = Undefined \/ bodyQuality = "" THEN "medium" ELSE bodyQuality

\* CONFIG.QUALITY_PRESETS[quality]: an own property, a member inherited
\* from Object.prototype (truthy, without fps, scale and colors), or
\* undefined
presetLookup(quality) ==
  IF quality \in DOMAIN QUALITY_PRESETS
    THEN [truthy |-> TRUE, fps |-> QUALITY_PRESETS[quality].fps,
          scale |-> QUALITY_PRESETS[quality].scale,
          colors |-> QUALITY_PRESETS[quality].colors]
  ELSE IF quality \in ObjectPrototypeKeys
    THEN [truthy |-> TRUE, fps |-> Undefined, scale |-> Undefined,
          colors |-> Undefined]
  ELSE [truthy |-> FALSE, fps |-> Undefined, scale |-> Undefined,
        colors |-> Undefined]

\* `${path.basename(filename, path.extname(filename))}.gif` in uploadDir
outputPathOf(filename) ==
  joinUploadDir(basename(filename, extname(filename)) \o ".gif")

\* `thumb-${path.basename(filename, path.extname(filename))}.jpg`
thumbnailPathOf(filename) ==
  joinUploadDir("thumb-" \o basename(filename, extname(filename)) \o ".jpg")

\* path.join(uploadDir, `palette-${Date.now()}.png`)
paletteFileOf(now) == joinUploadDir("palette-" \o ToString(now) \o ".png")

\* the command of /thumbnail
thumbnailCommand(input, thumbnail) ==
  "ffmpeg -i \"" \o input
  \o "\" -ss 00:00:01 -vframes 1 -vf \"scale=320:-1\" \""
  \o thumbnail \o "\""

\* the command of Stage 1
paletteCmd(input, preset, palette) ==
  "ffmpeg -i \"" \o input \o "\" -vf \"fps=" \o preset.fps
  \o ",scale=" \o preset.scale
  \o ":-1:flags=lanczos,palettegen=max_colors=" \o preset.colors
  \o "\" -y \"" \o palette \o "\""

\* the command of Stage 2
convertCmd(input, preset, palette, output) ==
  "ffmpeg -i \"" \o input \o "\" -i \"" \o palette
  \o "\" -lavfi \"fps=" \o preset.fps \o ",scale=" \o preset.scale
  \o ":-1:flags=lanczos[x];[x][1:v]paletteuse\" -y \"" \o output \o "\""

\* the catch block of /convert looking for 'timed out' in the message
convertErrorResponseTimedOut(error) ==
  IF Includes(error.message, "timed out")
    THEN Json(408, "Conversion timeout",
              "Video processing took too long. Try a shorter video or lower quality.")
    ELSE Json(500, "Video conversion failed", error.message)

\* the error response of the catch block of /convert
convertErrorResponse(error) ==
  IF Includes(error.message, "timeout")
    THEN Json(408, "Conversion timeout",
              "Video processing took too long. Try a shorter video or lower quality.")
    ELSE Json(500, "Video conversion failed", error.message)

\* the error response of the catch block of /thumbnail
thumbnailErrorResponse(error) ==
  Json(500, "Failed to generate thumbnail", error.message)

(***************************************************************************)
(* The external processes.                                                 *)
(***************************************************************************)
Stages == {"thumbnail", "palette", "convert"}

\* what ffmpeg wrote to stderr when it exits with a non-zero code
Stderr == "Invalid data found when processing input"

\* how a process ends: exit code 0 with its output file ("ok") or without
\* any frame written ("empty"), a non-zero exit code without ("fail") or
\* with a partial output file ("partial"), more output than maxBuffer
\* ("overflow")
Outcomes == {"ok", "empty", "fail", "partial", "overflow"}

\* the outcomes after which the output file of the process exists
WritesFile(outcome) == outcome \in {"ok", "partial"}

\* a promise of execAsync that is fulfilled however the process ends
FulfilledAlways(outcome) == outcome \in Outcomes

\* the outcomes with which the promise of execAsync is fulfilled
Fulfilled(outcome) == outcome \in {"ok", "empty"}

\* the error with which the promise of execAsync rejects
execError(command, outcome) ==
  IF outcome = "overflow" THEN MaxBufferError ELSE ExecError(command, Stderr)

\* the timeout execWithTimeout is called with
timeoutOf(stage) ==
  IF stage = "thumbnail" THEN THUMBNAIL_TIMEOUT
  ELSE IF stage = "palette" THEN FFMPEG_TIMEOUT \div 2
  ELSE FFMPEG_TIMEOUT

\* how long the process of a stage runs, in milliseconds
Durations == {1000, 59000, 119000}

\* the outcomes of the process of a stage: only the frame extraction of
\* /thumbnail ends with exit code 0 and no file (no frame at second 1)
OutcomesOf(stage) ==
  IF stage = "thumbnail" THEN Outcomes ELSE Outcomes \ {"empty"}

(***************************************************************************)
(* State.                                                                  *)
(***************************************************************************)
VARIABLES
  clock,          \* Date.now()
  files,          \* the scratch directory: path -> request that wrote it
  pc,             \* where each request is
  route,          \* the route of each request
  upload,         \* the file part each request carries
  quality,        \* req.body.quality
  reqFile,        \* req.file
  inputPath,      \* the variables of the handler
  outputPath,
  paletteFile,
  thumbnailPath,
  proc,           \* the state of the process of each stage
  timedOut,       \* the stages whose timer fired before the process ended
  error,          \* the error caught by the handler or by the error handler
  sendErr,        \* the error passed to the callback of res.sendFile
  elapsed,        \* the milliseconds the handler has waited for its processes
  responses,      \* the responses sent to the client
  log             \* the lines written by logger

vars ==
  <<clock, files, pc, route, upload, quality, reqFile, inputPath, outputPath,
    paletteFile, thumbnailPath, proc, timedOut, error, sendErr, elapsed,
    responses, log>>

\* the variables of the handler and of the request object
handlerVars == <<inputPath, outputPath, paletteFile, thumbnailPath>>

requestVars == <<route, upload, quality, reqFile>>

Init ==
  /\ clock = 1
  /\ files = <<>>
  /\ pc = [r \in Reqs |-> "new"]
  /\ route = [r \in Reqs |-> ""]
  /\ upload = [r \in Reqs |-> NoFile]
  /\ quality = [r \in Reqs |-> Undefined]
  /\ reqFile = [r \in Reqs |-> NoReqFile]
  /\ inputPath = [r \in Reqs |-> Null]
  /\ outputPath = [r \in Reqs |-> Null]
  /\ paletteFile = [r \in Reqs |-> Null]
  /\ thumbnailPath = [r \in Reqs |-> Null]
  /\ proc = [r \in Reqs |-> [s \in Stages |-> "none"]]
  /\ timedOut = [r \in Reqs |-> {}]
  /\ error = [r \in Reqs |-> NoError]
  /\ sendErr = [r \in Reqs |-> NoError]
  /\ elapsed = [r \in Reqs |-> 0]
  /\ responses = [r \in Reqs |-> <<>>]
  /\ log = [r \in Reqs |-> <<>>]

(***************************************************************************)
(* Actions.                                                                *)
(***************************************************************************)
\* a millisecond passes
Tick ==
  /\ clock < MaxClock
  /\ clock' = clock + 1
  /\ UNCHANGED <<files, pc, requestVars, handlerVars, proc, timedOut, error,
                 sendErr, elapsed, responses, log>>

\* A request arrives and upload.single('video') processes its body: the
\* upload is stored in uploadDir and the handler is called next, or the
\* request ends in the global error handler.
Upload(r, uploads, qualities) ==
  /\ pc[r] = "new"
  /\ \E rt \in Routes, file \in uploads :
       \E q \in (IF rt = "/convert" THEN qualities ELSE {Undefined}) :
         LET err == multerCheck(file)
             name == storageFilename(clock, file.originalname)
         IN /\ route' = [route EXCEPT ![r] = rt]
            /\ upload' = [upload EXCEPT ![r] = file]
            /\ quality' = [quality EXCEPT ![r] = q]
            /\ IF err # NoError
                 THEN /\ error' = [error EXCEPT ![r] = err]
                      /\ responses' =
                           [responses EXCEPT ![r] = Append(@, errorHandler(err))]
                      /\ log' = [log EXCEPT ![r] = Append(@, errorHandlerLog(err))]
                      /\ pc' = [pc EXCEPT ![r] = "done"]
                      /\ UNCHANGED <<files, reqFile>>
               ELSE IF file = NoFile
                 THEN /\ pc' = [pc EXCEPT ![r] = "handler"]
                      /\ UNCHANGED <<files, reqFile, error, responses, log>>
               ELSE /\ files' = writeFile(files, joinUploadDir(name), r)
                    /\ reqFile' = [reqFile EXCEPT ![r] =
                                     [filename |-> name,
                                      path |-> joinUploadDir(name),
                                      size |-> file.size]]
                    /\ pc' = [pc EXCEPT ![r] = "handler"]
                    /\ UNCHANGED <<error, responses, log>>
  /\ UNCHANGED <<clock, handlerVars, proc, timedOut, sendErr, elapsed>>

\* execWithTimeout(command, timeout) is called: the process of the stage
\* starts and the handler waits for the race
Launch(r, stage) ==
  /\ proc' = [proc EXCEPT ![r][stage] = "running"]
  /\ pc' = [pc EXCEPT ![r] = stage]

\* the scratch directory once the process of a stage of r has ended
afterExit(r, path, outcome) ==
  IF WritesFile(outcome) THEN writeFile(files, path, r) ELSE files

\* the catch block of /thumbnail: log, cleanup, then the error response
ThumbnailCatch(r, err, files1, faulty) ==
  /\ error' = [error EXCEPT ![r] = err]
  /\ \E failing \in Failing(files1, <<inputPath[r], thumbnailPath[r]>>, faulty) :
       /\ log' = [log EXCEPT ![r] =
                    @ \o <<LogError("Thumbnail generation failed", err,
                                    inputPath[r])>>
                      \o cleanupLog(files1, <<inputPath[r], thumbnailPath[r]>>,
                                    failing)]
       /\ files' = cleanupFiles(files1, <<inputPath[r], thumbnailPath[r]>>,
                                failing)
  /\ responses' = [responses EXCEPT ![r] = Append(@, thumbnailErrorResponse(err))]
  /\ pc' = [pc EXCEPT ![r] = "done"]

\* the catch block of /convert: log, cleanup, then the error response
ConvertCatch(r, err, files1, faulty) ==
  /\ error' = [error EXCEPT ![r] = err]
  /\ \E failing \in Failing(files1, <<inputPath[r], outputPath[r]>>, faulty) :
       /\ log' = [log EXCEPT ![r] =
                    @ \o <<LogError("Video conversion failed", err,
                                    inputPath[r])>>
                      \o cleanupLog(files1, <<inputPath[r], outputPath[r]>>,
                                    failing)]
       /\ files' = cleanupFiles(files1, <<inputPath[r], outputPath[r]>>,
                                failing)
  /\ responses' = [responses EXCEPT ![r] = Append(@, convertErrorResponse(err))]
  /\ pc' = [pc EXCEPT ![r] = "done"]

\* the handler of /thumbnail up to its await
ThumbnailHandler(r) ==
  /\ pc[r] = "handler"
  /\ route[r] = "/thumbnail"
  /\ IF reqFile[r] = NoReqFile
       THEN /\ responses' = [responses EXCEPT ![r] =
                               Append(@, Json(400, "No video file uploaded", ""))]
            /\ pc' = [pc EXCEPT ![r] = "done"]
            /\ UNCHANGED <<handlerVars, proc, log>>
       ELSE /\ inputPath' = [inputPath EXCEPT ![r] = reqFile[r].path]
            /\ thumbnailPath' = [thumbnailPath EXCEPT ![r] =
                                   thumbnailPathOf(reqFile[r].filename)]
            /\ log' = [log EXCEPT ![r] =
                         Append(@, LogInfo("Generating thumbnail", reqFile[r].path))]
            /\ Launch(r, "thumbnail")
            /\ UNCHANGED <<outputPath, paletteFile, responses>>
  /\ UNCHANGED <<clock, files, requestVars, timedOut, error, sendErr, elapsed>>

\* the extraction process ends before its timer fires
ThumbnailExit(r, outcome, d, faulty) ==
  /\ pc[r] = "thumbnail"
  /\ proc[r]["thumbnail"] = "running"
  /\ outcome \in OutcomesOf("thumbnail")
  /\ d < timeoutOf("thumbnail")
  /\ elapsed' = [elapsed EXCEPT ![r] = @ + d]
  /\ proc' = [proc EXCEPT ![r]["thumbnail"] = "exited"]
  /\ IF Fulfilled(outcome)
       THEN /\ files' = afterExit(r, thumbnailPath[r], outcome)
            /\ pc' = [pc EXCEPT ![r] = "sending"]
            /\ UNCHANGED <<error, responses, log>>
       ELSE ThumbnailCatch(r,
              execError(thumbnailCommand(inputPath[r], thumbnailPath[r]), outcome),
              afterExit(r, thumbnailPath[r], outcome), faulty)
  /\ UNCHANGED <<clock, requestVars, handlerVars, timedOut, sendErr>>

\* the timer of the extraction fires first
ThumbnailTimeout(r, faulty) ==
  /\ pc[r] = "thumbnail"
  /\ proc[r]["thumbnail"] = "running"
  /\ elapsed' = [elapsed EXCEPT ![r] = @ + timeoutOf("thumbnail")]
  /\ timedOut' = [timedOut EXCEPT ![r] = @ \cup {"thumbnail"}]
  /\ ThumbnailCatch(r, TimeoutError, files, faulty)
  /\ UNCHANGED <<clock, requestVars, handlerVars, proc, sendErr>>

\* the handler of /convert up to its first await
ConvertHandler(r) ==
  /\ pc[r] = "handler"
  /\ route[r] = "/convert"
  /\ IF reqFile[r] = NoReqFile
       THEN /\ responses' = [responses EXCEPT ![r] =
                               Append(@, Json(400, "No video file uploaded", ""))]
            /\ pc' = [pc EXCEPT ![r] = "done"]
            /\ UNCHANGED <<handlerVars, proc, log>>
     ELSE IF ~presetLookup(qualityOf(quality[r])).truthy
       THEN /\ responses' = [responses EXCEPT ![r] =
                               Append(@, JsonAllowed(400, "Invalid quality setting",
                                                     PresetKeys))]
            /\ pc' = [pc EXCEPT ![r] = "done"]
            /\ UNCHANGED <<handlerVars, proc, log>>
     ELSE /\ inputPath' = [inputPath EXCEPT ![r] = reqFile[r].path]
          /\ outputPath' = [outputPath EXCEPT ![r] =
                              outputPathOf(reqFile[r].filename)]
          /\ paletteFile' = [paletteFile EXCEPT ![r] = paletteFileOf(clock)]
          /\ log' = [log EXCEPT ![r] =
                       Append(@, LogInfo("Starting video conversion",
                                         reqFile[r].path))]
          /\ Launch(r, "palette")
          /\ UNCHANGED <<thumbnailPath, responses>>
  /\ UNCHANGED <<clock, files, requestVars, timedOut, error, sendErr, elapsed>>

\* the process of Stage 1 ends before its timer fires; Stage 2 is launched
\* when it succeeded
PaletteExit(r, outcome, d, faulty) ==
  /\ pc[r] = "palette"
  /\ proc[r]["palette"] = "running"
  /\ outcome \in OutcomesOf("palette")
  /\ d < timeoutOf("palette")
  /\ elapsed' = [elapsed EXCEPT ![r] = @ + d]
  /\ IF Fulfilled(outcome)
       THEN /\ files' = afterExit(r, paletteFile[r], outcome)
            /\ proc' = [proc EXCEPT ![r]["palette"] = "exited",
                                    ![r]["convert"] = "running"]
            /\ pc' = [pc EXCEPT ![r] = "convert"]
            /\ UNCHANGED <<error, responses, log>>
       ELSE /\ proc' = [proc EXCEPT ![r]["palette"] = "exited"]
            /\ ConvertCatch(r,
                 execError(paletteCmd(inputPath[r],
                                      presetLookup(qualityOf(quality[r])),
                                      paletteFile[r]), outcome),
                 afterExit(r, paletteFile[r], outcome), faulty)
  /\ UNCHANGED <<clock, requestVars, handlerVars, timedOut, sendErr>>

\* the timer of Stage 1 fires first
PaletteTimeout(r, faulty) ==
  /\ pc[r] = "palette"
  /\ proc[r]["palette"] = "running"
  /\ elapsed' = [elapsed EXCEPT ![r] = @ + timeoutOf("palette")]
  /\ timedOut' = [timedOut EXCEPT ![r] = @ \cup {"palette"}]
  /\ ConvertCatch(r, TimeoutError, files, faulty)
  /\ UNCHANGED <<clock, requestVars, handlerVars, proc, sendErr>>

\* the process of Stage 2 ends before its timer fires; res.sendFile is called
\* when it succeeded
ConvertExit(r, outcome, d, faulty) ==
  /\ pc[r] = "convert"
  /\ proc[r]["convert"] = "running"
  /\ outcome \in OutcomesOf("convert")
  /\ d < timeoutOf("convert")
  /\ elapsed' = [elapsed EXCEPT ![r] = @ + d]
  /\ proc' = [proc EXCEPT ![r]["convert"] = "exited"]
  /\ IF Fulfilled(outcome)
       THEN /\ files' = afterExit(r, outputPath[r], outcome)
            /\ log' = [log EXCEPT ![r] =
                         Append(@, LogInfo("Conversion successful", outputPath[r]))]
            /\ pc' = [pc EXCEPT ![r] = "sending"]
            /\ UNCHANGED <<error, responses>>
       ELSE ConvertCatch(r,
              execError(convertCmd(inputPath[r],
                                   presetLookup(qualityOf(quality[r])),
                                   paletteFile[r], outputPath[r]), outcome),
              afterExit(r, outputPath[r], outcome), faulty)
  /\ UNCHANGED <<clock, requestVars, handlerVars, timedOut, sendErr>>

\* the timer of Stage 2 fires first
ConvertTimeout(r, faulty) ==
  /\ pc[r] = "convert"
  /\ proc[r]["convert"] = "running"
  /\ elapsed' = [elapsed EXCEPT ![r] = @ + timeoutOf("convert")]
  /\ timedOut' = [timedOut EXCEPT ![r] = @ \cup {"convert"}]
  /\ ConvertCatch(r, TimeoutError, files, faulty)
  /\ UNCHANGED <<clock, requestVars, handlerVars, proc, sendErr>>

\* the file res.sendFile is called with
resultPath(r) ==
  IF route[r] = "/thumbnail" THEN thumbnailPath[r] ELSE outputPath[r]

\* the paths the callback of res.sendFile cleans up
sentCleanup(r) ==
  IF route[r] = "/thumbnail"
    THEN <<inputPath[r], thumbnailPath[r]>>
    ELSE <<inputPath[r], outputPath[r], paletteFile[r]>>

\* the log line of the callback of res.sendFile for an error
sendErrorLog(r, err) ==
  LogError(IF route[r] = "/thumbnail" THEN "Error sending thumbnail"
           ELSE "Error sending GIF file", err, "")

\* the callback of res.sendFile: the error is logged, then the cleanup
SendCallback(r, err, faulty) ==
  /\ sendErr' = [sendErr EXCEPT ![r] = err]
  /\ \E failing \in Failing(files, sentCleanup(r), faulty) :
       /\ log' = [log EXCEPT ![r] =
                    @ \o (IF err = NoError THEN <<>>
                          ELSE <<sendErrorLog(r, err)>>)
                      \o cleanupLog(files, sentCleanup(r), failing)]
       /\ files' = cleanupFiles(files, sentCleanup(r), failing)
  /\ pc' = [pc EXCEPT ![r] = "done"]

\* res.sendFile looks for the file: it starts to stream it to the client,
\* or the file does not exist, nothing is sent and the callback gets ENOENT
SendFile(r, faulty) ==
  /\ pc[r] = "sending"
  /\ IF existsSync(files, resultPath(r))
       THEN /\ pc' = [pc EXCEPT ![r] = "streaming"]
            /\ UNCHANGED <<files, sendErr, log>>
       ELSE SendCallback(r, SendError("ENOENT"), faulty)
  /\ UNCHANGED <<clock, requestVars, handlerVars, proc, timedOut, error,
                 elapsed, responses>>

\* the streaming ends and the callback is called: the client got the file
\* (ok), or it closed the connection while the file was streamed
SendEnd(r, ok, faulty) ==
  /\ pc[r] = "streaming"
  /\ responses' = [responses EXCEPT ![r] =
                     Append(@, FileResponse(resultPath(r)))]
  /\ SendCallback(r, IF ok THEN NoError ELSE SendError("ECONNABORTED"),
                  faulty)
  /\ UNCHANGED <<clock, requestVars, handlerVars, proc, timedOut, error,
                 elapsed>>

\* the output file of the process of a stage
stagePath(r, stage) ==
  IF stage = "thumbnail" THEN thumbnailPath[r]
  ELSE IF stage = "palette" THEN paletteFile[r]
  ELSE outputPath[r]

\* a process whose timer fired ends later: nothing waits for it any more
LateExit(r, stage, outcome) ==
  /\ stage \in timedOut[r]
  /\ proc[r][stage] = "running"
  /\ outcome \in OutcomesOf(stage)
  /\ proc' = [proc EXCEPT ![r][stage] = "exited"]
  /\ files' = afterExit(r, stagePath(r, stage), outcome)
  /\ UNCHANGED <<clock, pc, requestVars, handlerVars, timedOut, error, sendErr,
                 elapsed, responses, log>>

\* the steps of request r once it has arrived, its processes ending with
\* the given outcomes after the given durations
Handle(r, outcomes, durations, faulty) ==
  \/ ThumbnailHandler(r)
  \/ \E o \in outcomes, d \in durations : ThumbnailExit(r, o, d, faulty)
  \/ ThumbnailTimeout(r, faulty)
  \/ ConvertHandler(r)
  \/ \E o \in outcomes, d \in durations : PaletteExit(r, o, d, faulty)
  \/ PaletteTimeout(r, faulty)
  \/ \E o \in outcomes, d \in durations : ConvertExit(r, o, d, faulty)
  \/ ConvertTimeout(r, faulty)
  \/ SendFile(r, faulty)
  \/ \E ok \in BOOLEAN : SendEnd(r, ok, faulty)
  \/ \E s \in Stages, o \in outcomes : LateExit(r, s, o)

\* One request (request 1) with every input of Uploads and Qualities.
Next ==
  \/ Tick
  \/ Upload(1, Uploads, Qualities)
  \/ Handle(1, Outcomes, Durations, TRUE)

Spec == Init /\ [][Next]_vars

\* NReq concurrent requests with the inputs of ConcUploads and ConcQualities.
NextConc ==
  \/ Tick
  \/ \E r \in Reqs : Upload(r, ConcUploads, ConcQualities)
  \/ \E r \in Reqs : Handle(r, ConcOutcomes, ConcDurations, FALSE)

SpecConc == Init /\ [][NextConc]_vars

\* One request with every client file name of NameUploads: the storage of
\* multer applies sanitizeFilename to it.
NextNames ==
  \/ Tick
  \/ Upload(1, NameUploads, ConcQualities)

SpecNames == Init /\ [][NextNames]_vars

\* the paths of the lists cleanupFiles is called with in SpecCleanup
CleanupPaths ==
  {joinUploadDir("1-clip.mp4"), joinUploadDir("1-clip.gif"),
   joinUploadDir("palette-1.png")}

\* cleanupFiles on its own: request 1 is about to call it with any list of
\* three paths of CleanupPaths or null, in any scratch directory
InitCleanup ==
  /\ clock = 1
  /\ files \in {[p \in S |-> 1] : S \in SUBSET CleanupPaths}
  /\ pc = [r \in Reqs |-> IF r = 1 THEN "cleanup" ELSE "new"]
  /\ route = [r \in Reqs |-> IF r = 1 THEN "/convert" ELSE ""]
  /\ upload = [r \in Reqs |-> NoFile]
  /\ quality = [r \in Reqs |-> Undefined]
  /\ reqFile = [r \in Reqs |-> NoReqFile]
  /\ \E input \in CleanupPaths \cup {Null} :
       inputPath = [r \in Reqs |-> IF r = 1 THEN input ELSE Null]
  /\ \E output \in CleanupPaths \cup {Null} :
       outputPath = [r \in Reqs |-> IF r = 1 THEN output ELSE Null]
  /\ \E palette \in CleanupPaths \cup {Null} :
       paletteFile = [r \in Reqs |-> IF r = 1 THEN palette ELSE Null]
  /\ thumbnailPath = [r \in Reqs |-> Null]
  /\ proc = [r \in Reqs |-> [s \in Stages |-> "none"]]
  /\ timedOut = [r \in Reqs |-> {}]
  /\ error = [r \in Reqs |-> NoError]
  /\ sendErr = [r \in Reqs |-> NoError]
  /\ elapsed = [r \in Reqs |-> 0]
  /\ responses = [r \in Reqs |-> <<>>]
  /\ log = [r \in Reqs |-> <<>>]

\* cleanupFiles([inputPath, outputPath, paletteFile]) is called, a first
\* and a second time
Cleanup(r) ==
  /\ pc[r] \in {"cleanup", "cleaned"}
  /\ \E failing \in Failing(files, sentCleanup(r), TRUE) :
       /\ files' = cleanupFiles(files, sentCleanup(r), failing)
       /\ log' = [log EXCEPT ![r] =
                    @ \o cleanupLog(files, sentCleanup(r), failing)]
  /\ pc' = [pc EXCEPT ![r] = IF pc[r] = "cleanup" THEN "cleaned"
                             ELSE "cleaned twice"]
  /\ UNCHANGED <<clock, requestVars, handlerVars, proc, timedOut, error,
                 sendErr, elapsed, responses>>

NextCleanup == Cleanup(1)

SpecCleanup == InitCleanup /\ [][NextCleanup]_vars

(***************************************************************************)
(* Properties.                                                             *)
(***************************************************************************)
\* the paths of the artifacts of request r
ArtifactPaths(r) ==
  {reqFile[r].path, inputPath[r], outputPath[r], paletteFile[r],
   thumbnailPath[r]} \ {"", Null}

\* the processes request r launched
Launched(r) == {s \in Stages : proc[r][s] # "none"}

\* the last response of request r
LastResponse(r) == responses[r][Len(responses[r])]

\* C1: once a /convert or /thumbnail request whose upload was stored has
\* been answered and its cleanup has run, no artifact of the request
\* (input, palette, output, thumbnail) exists in the scratch directory.
C1_NoArtifactAfterRequest ==
  \A r \in Reqs :
    (pc[r] = "done" /\ reqFile[r] # NoReqFile)
      => \A p \in ArtifactPaths(r) : ~existsSync(files, p)

\* the log lines request r writes in a step
NewLog(r) == SubSeq(log'[r], Len(log[r]) + 1, Len(log'[r]))

\* the failure to delete filePath is among the log lines
FailureLogged(lines, filePath) ==
  \E i \in 1..Len(lines) :
    /\ lines[i].level = "error"
    /\ lines[i].message = "Failed to cleanup file"
    /\ lines[i].path = filePath

\* C2: when Stage 1 or Stage 2 of /convert fails or times out, the input
\* file, the palette file and the output file are all gone when the error
\* response is sent, but for those whose deletion was refused and logged.
C2_ErrorPathReleasesAll ==
  [][\A r \in Reqs :
       (pc[r] \in {"palette", "convert"} /\ pc'[r] = "done")
         => \A p \in {inputPath[r], paletteFile[r], outputPath[r]} :
              ~existsSync(files', p) \/ FailureLogged(NewLog(r), p)]_vars

\* C3: when the timer of Stage 1 or of Stage 2 has fired, the request is
\* answered with 408 'Conversion timeout' and with nothing else.
C3_TimerGives408 ==
  \A r \in Reqs :
    (route[r] = "/convert" /\ timedOut[r] # {})
      => /\ Len(responses[r]) = 1
         /\ responses[r][1].status = 408
         /\ responses[r][1].error = "Conversion timeout"

\* C3 happens: the timer of Stage 2 fired and the request was answered 408.
C3_Witness ==
  \E r \in Reqs :
    /\ "convert" \in timedOut[r]
    /\ Len(responses[r]) = 1
    /\ responses[r][1].status = 408

\* C4: a failed /convert request is answered with 408 exactly when a stage
\* timer fired, and with 500 when the process failed without a timer firing.
C4_TimeoutDistinguished ==
  \A r \in Reqs :
    (route[r] = "/convert" /\ pc[r] = "done" /\ reqFile[r] # NoReqFile
       /\ error[r] # NoError)
      => /\ (LastResponse(r).status = 408) <=> (timedOut[r] # {})
         /\ (timedOut[r] = {}) => (LastResponse(r).status = 500)

\* C5: an upload whose declared MIME type is outside the allow-list is
\* answered with a 4xx status and no process is launched for it.
C5_BadMimeRejected400 ==
  \A r \in Reqs :
    (pc[r] # "new" /\ upload[r] # NoFile /\ ~fileFilter(upload[r]))
      => /\ pc[r] = "done"
         /\ Len(responses[r]) = 1
         /\ responses[r][1].status \in 400..499
         /\ Launched(r) = {}

\* C6: a /convert request with a file and a quality that is not low, medium
\* or high is answered with 400 and the list low, medium, high, and no
\* process is launched for it.
C6_UnknownQualityRejected ==
  \A r \in Reqs :
    (route[r] = "/convert" /\ reqFile[r] # NoReqFile
       /\ pc[r] \notin {"new", "handler"}
       /\ quality[r] \notin {Undefined, "low", "medium", "high"})
      => /\ pc[r] = "done"
         /\ responses[r] =
              <<JsonAllowed(400, "Invalid quality setting",
                            <<"low", "medium", "high">>)>>
         /\ Launched(r) = {}

\* the request with an upload larger than MAX_FILE_SIZE was answered with
\* 413 and the maximum size, its handler did not run and no process was
\* launched
RejectedTooLarge(r) ==
  /\ pc[r] = "done"
  /\ responses[r] = <<JsonMaxSize(413, "File too large", "100MB")>>
  /\ reqFile[r] = NoReqFile
  /\ inputPath[r] = Null
  /\ Launched(r) = {}
  /\ \A now \in 1..MaxClock :
       ~existsSync(files,
                   joinUploadDir(storageFilename(now, upload[r].originalname)))

\* C7 as stated: every upload larger than MAX_FILE_SIZE is rejected with 413.
C7_Original ==
  \A r \in Reqs :
    (pc[r] # "new" /\ upload[r].size > MAX_FILE_SIZE) => RejectedTooLarge(r)

\* C7: every upload in the field 'video' with an allowed MIME type that is
\* larger than MAX_FILE_SIZE is rejected with 413 and the configured
\* maximum size; the handler does not run and no process is launched.
C7_TooLargeRejected413 ==
  \A r \in Reqs :
    (pc[r] # "new" /\ upload[r].size > MAX_FILE_SIZE
       /\ upload[r].fieldname = "video" /\ fileFilter(upload[r]))
      => RejectedTooLarge(r)

\* C7 happens: an upload of an allowed type in 'video' was too large.
C7_Witness ==
  \E r \in Reqs :
    /\ upload[r].size > MAX_FILE_SIZE
    /\ upload[r].fieldname = "video"
    /\ fileFilter(upload[r])
    /\ pc[r] = "done"
    /\ responses[r][1].status = 413

\* C8: no error response contains a path of the scratch directory or a
\* stack trace.
C8_NoPathInErrorBody ==
  \A r \in Reqs :
    \A i \in 1..Len(responses[r]) :
      responses[r][i].status >= 400
        => /\ ~Includes(responses[r][i].details, uploadDir)
           /\ ~Includes(responses[r][i].error, uploadDir)
           /\ ~Includes(responses[r][i].details, StackMark)
           /\ ~Includes(responses[r][i].error, StackMark)

\* C9: after the timeout response and the cleanup of a request no process of
\* the request is running.
C9_NoProcessAfterTimeout ==
  \A r \in Reqs :
    (pc[r] = "done" /\ timedOut[r] # {})
      => \A s \in Stages : proc[r][s] # "running"

\* C10: a request that has ended has received exactly one response.
C10_ExactlyOneResponse ==
  \A r \in Reqs : pc[r] = "done" => Len(responses[r]) = 1

\* C11: when the timer of the extraction of /thumbnail has fired, the
\* request is answered with the timeout status 408 and not with 500.
C11_ThumbnailTimeout408 ==
  \A r \in Reqs :
    (route[r] = "/thumbnail" /\ "thumbnail" \in timedOut[r])
      => /\ Len(responses[r]) = 1
         /\ responses[r][1].status = 408

\* the characters of NameChars outside [A-Za-z0-9._-]
UnsafeNameChars == {" ", ";", "$", "\""}

\* the i-th character of a string
CharAt(str, i) == SubSeq(str, i, i)

\* the sanitized name at the end of the stored file name of request r
StoredName(r) ==
  SubSeq(reqFile[r].filename,
         Len(reqFile[r].filename) - Len(upload[r].originalname) + 1,
         Len(reqFile[r].filename))

\* C12: the sanitized name under which an upload is stored has the length of
\* the client file name, every character outside [A-Za-z0-9._-] is replaced
\* by '_' and every other character is unchanged, so that it contains only
\* characters of that set and sanitizing it again changes nothing.
C12_SanitizeCharacters ==
  \A r \in Reqs :
    reqFile[r] # NoReqFile
      => /\ \E now \in 1..MaxClock :
              reqFile[r].filename = ToString(now) \o "-" \o StoredName(r)
         /\ StoredName(r) = sanitizeFilename(upload[r].originalname)
         /\ \A i \in 1..Len(upload[r].originalname) :
              /\ CharAt(StoredName(r), i) \notin UnsafeNameChars
              /\ CharAt(upload[r].originalname, i) \in UnsafeNameChars
                   => CharAt(StoredName(r), i) = "_"
              /\ CharAt(upload[r].originalname, i) \notin UnsafeNameChars
                   => CharAt(StoredName(r), i) = CharAt(upload[r].originalname, i)
         /\ sanitizeFilename(StoredName(r)) = StoredName(r)

\* C12 happens: a name of MaxNameLen characters with a shell metacharacter
\* and a kept character was stored.
C12_Witness ==
  \E r \in Reqs :
    /\ reqFile[r] # NoReqFile
    /\ Len(upload[r].originalname) >= 3
    /\ Includes(upload[r].originalname, ";")
    /\ Includes(upload[r].originalname, ".")
    /\ Includes(StoredName(r), "_")

\* request r calls cleanupFiles in SpecCleanup
CleanupCall(r) == pc[r] \in {"cleanup", "cleaned"} /\ pc'[r] # pc[r]

\* C13 as stated: after each of the two calls of cleanupFiles none of the
\* listed paths exists.
C13_Original ==
  [][\A r \in Reqs :
       CleanupCall(r)
         => \A p \in PathsOf(sentCleanup(r)) : ~existsSync(files', p)]_vars

\* C13: each of two calls of cleanupFiles on the same list, which may hold
\* null and paths that were never created, completes; afterwards a listed
\* path exists only if its deletion failed in this call and was logged, no
\* other file is touched, and a call that finds none of the paths changes
\* nothing.
C13_CleanupIdempotent ==
  [][\A r \in Reqs :
       CleanupCall(r)
         => /\ pc'[r] \in {"cleaned", "cleaned twice"}
            /\ \A p \in PathsOf(sentCleanup(r)) :
                 \/ ~existsSync(files', p)
                 \/ existsSync(files, p) /\ FailureLogged(NewLog(r), p)
            /\ \A p \in DOMAIN files :
                 p \notin PathsOf(sentCleanup(r)) => existsSync(files', p)
            /\ DOMAIN files' \subseteq DOMAIN files
            /\ Existing(files, sentCleanup(r)) = {}
                 => files' = files /\ log' = log]_vars

\* C13 happens: cleanupFiles was called twice on a list with null, a path
\* that was never created and a path that the first call deleted.
C13_Witness ==
  /\ pc[1] = "cleaned twice"
  /\ inputPath[1] = Null
  /\ outputPath[1] # Null
  /\ paletteFile[1] \notin {Null, outputPath[1]}
  /\ log[1] = <<LogInfo("File cleaned up", outputPath[1])>>
  /\ ~existsSync(files, outputPath[1])
  /\ ~existsSync(files, paletteFile[1])

\* the paths the catch block of the handler of r cleans up
caughtCleanup(r) ==
  IF route[r] = "/thumbnail"
    THEN <<inputPath[r], thumbnailPath[r]>>
    ELSE <<inputPath[r], outputPath[r]>>

\* request r ends in a step that calls cleanupFiles
CleanupStep(r) ==
  /\ pc[r] \in {"thumbnail", "palette", "convert", "sending", "streaming"}
  /\ pc'[r] = "done"

\* the paths of the call of cleanupFiles in a step that ends request r
CleanedUp(r) ==
  IF pc[r] \in {"sending", "streaming"} THEN sentCleanup(r)
  ELSE caughtCleanup(r)

\* C18: in every step that calls cleanupFiles the handler completes, the
\* error it holds is never the one of a failed deletion, every listed path
\* is deleted unless its own deletion failed and was logged, and the
\* response is the one the handler sends for its error or for its result,
\* whichever deletions failed.
C18_CleanupFailureOnlyLogged ==
  [][\A r \in Reqs :
       CleanupStep(r)
         => /\ error'[r].code # "EPERM"
            /\ sendErr'[r].code # "EPERM"
            /\ \A p \in PathsOf(CleanedUp(r)) :
                 ~existsSync(files', p) \/ FailureLogged(NewLog(r), p)
            /\ IF pc[r] = "sending" THEN responses'[r] = responses[r]
               ELSE IF pc[r] = "streaming"
                 THEN responses'[r] =
                        Append(responses[r], FileResponse(resultPath(r)))
               ELSE IF route[r] = "/thumbnail"
                 THEN responses'[r] =
                        Append(responses[r], thumbnailErrorResponse(error'[r]))
               ELSE responses'[r] =
                      Append(responses[r], convertErrorResponse(error'[r]))]_vars

\* C18 happens: in the catch block of /convert the deletion of the input
\* failed, the output was deleted after it and the client got the 500.
C18_Witness ==
  /\ pc[1] = "done"
  /\ route[1] = "/convert"
  /\ error[1] # NoError
  /\ existsSync(files, inputPath[1])
  /\ ~existsSync(files, outputPath[1])
  /\ \E i, j \in 1..Len(log[1]) :
       /\ i < j
       /\ log[1][i].message = "Failed to cleanup file"
       /\ log[1][i].path = inputPath[1]
       /\ log[1][j] = LogInfo("File cleaned up", outputPath[1])
  /\ responses[1] = <<convertErrorResponse(error[1])>>
  /\ responses[1][1].status = 500

\* the process of a stage of request r is launched in a step
LaunchStep(r, stage) ==
  proc[r][stage] # "running" /\ proc'[r][stage] = "running"

\* C15: Stage 2 is launched only by the handler that waits for Stage 1, in
\* the step in which the process of Stage 1 ends before its timer with its
\* palette written and no error caught; Stage 1 is launched only before
\* Stage 2; no process is launched twice, nor once the request has ended.
C15_StagesSequential ==
  [][\A r \in Reqs :
       /\ LaunchStep(r, "convert")
            => /\ pc[r] = "palette"
               /\ proc[r]["palette"] = "running"
               /\ proc'[r]["palette"] = "exited"
               /\ "palette" \notin timedOut'[r]
               /\ error'[r] = NoError
               /\ responses'[r] = <<>>
               /\ existsSync(files', paletteFile[r])
       /\ LaunchStep(r, "palette")
            => pc[r] = "handler" /\ proc[r]["convert"] = "none"
       /\ \A s \in Stages :
            LaunchStep(r, s) => proc[r][s] = "none" /\ pc[r] # "done"]_vars

\* C15 happens: Stage 2 runs after Stage 1 has ended with its palette.
C15_Witness ==
  /\ pc[1] = "convert"
  /\ proc[1]["palette"] = "exited"
  /\ proc[1]["convert"] = "running"
  /\ existsSync(files, paletteFile[1])
  /\ error[1] = NoError

\* C19: once the handler of a request has built its paths, the input path
\* differs from the output path and from the palette path, the output path
\* from the palette path (/convert), and the input path from the thumbnail
\* path (/thumbnail).
C19_RolePathsDistinct ==
  \A r \in Reqs :
    inputPath[r] # Null
      => IF route[r] = "/thumbnail"
           THEN inputPath[r] # thumbnailPath[r]
           ELSE /\ inputPath[r] # outputPath[r]
                /\ inputPath[r] # paletteFile[r]
                /\ outputPath[r] # paletteFile[r]

\* C14: a /convert request has waited at most FFMPEG_TIMEOUT milliseconds
\* for its two stages when it has succeeded or has been answered with the
\* timeout, and at any moment before.
C14_ConvertWithin120Seconds ==
  \A r \in Reqs : route[r] = "/convert" => elapsed[r] <= FFMPEG_TIMEOUT

\* request r is in flight: it has arrived and its handling has not ended
InFlight(r) == pc[r] \notin {"new", "done"}

\* C16: two requests in flight at the same time have no artifact path in
\* common.
C16_ConcurrentPathsDistinct ==
  \A r1, r2 \in Reqs :
    r1 # r2 /\ InFlight(r1) /\ InFlight(r2)
      => ArtifactPaths(r1) \cap ArtifactPaths(r2) = {}

\* C17: the result file exists as long as it is streamed to the client, and
\* the input as long as the result is to be sent or is streamed: the cleanup
\* comes after the send.
C17_ReleaseAfterSend ==
  \A r \in Reqs :
    /\ pc[r] = "streaming" => existsSync(files, resultPath(r))
    /\ pc[r] \in {"sending", "streaming"} => existsSync(files, inputPath[r])

====
